---- MODULE Spec2Model ----
(***************************************************************************)
(* IP-Adapter for ComfyUI (ip_adapter.py): the patch table of the host     *)
(* model, the Key/Value bank loaded from an adapter checkpoint, the layer  *)
(* enumeration of IPAdapter.adapter and the per-call transform of          *)
(* CrossAttentionPatch.                                                    *)
(*                                                                         *)
(* Tensors are modelled by their shapes and by integer rows: a token       *)
(* tensor of shape (batch, tokens, dim) is a sequence of `batch` integer   *)
(* rows (one token of one channel per row), a Linear layer without bias    *)
(* is a record [out, in, w] (its weight's shape and one scalar weight).    *)
(* With a single key/value token per row, softmax attention returns the    *)
(* value row, which is how `attention` is modelled. Reduced precision is   *)
(* the loss of the low bit of a value; a mask is the one pixel left of it  *)
(* at the attention map's resolution.                                      *)
(***************************************************************************)
EXTENDS Integers, Sequences, FiniteSets, TLC

VARIABLES
    model,       \* new_model.model_options["transformer_options"]["patches_replace"]["attn2"]: key -> CrossAttentionPatch
    ipadapters,  \* the IPAdapterModel objects built so far; patches refer to them by position
    installs,    \* one record per IPAdapter.adapter invocation: its arguments, outcome and set_model_patch_replace calls
    result       \* what the last CrossAttentionPatch.__call__ computed

vars == <<model, ipadapters, installs, result>>

----------------------------------------------------------------------------
(* Bounds of the model *)

MaxInstalls == 2    \* adapter invocations in Spec
MaxLoads == 2       \* adapter invocations in SpecLoad
MaxStack == 2       \* adapter invocations in SpecCall
MaxPrompts == 2     \* largest number of prompts per conditioning branch in a patch call
MaxSel == 2         \* longest cond_or_uncond selector

----------------------------------------------------------------------------
(* Constant tables *)

Rep(x, n) == [i \in 1..n |-> x]

SD_V12_CHANNELS ==
    Rep(320, 4) \o Rep(640, 4) \o Rep(1280, 4) \o Rep(1280, 6) \o Rep(640, 6)
        \o Rep(320, 6) \o Rep(1280, 2)

SD_XL_CHANNELS ==
    Rep(640, 8) \o Rep(1280, 40) \o Rep(1280, 60) \o Rep(640, 12) \o Rep(1280, 20)

None == "None"

\* mask=None; a mask tensor is the sequence of its pixels
NoMask == <<>>

\* no patch call made yet
NoResult == [status |-> "none"]

----------------------------------------------------------------------------
(* To_KV and IPAdapterModel *)

\* To_KV.__init__: one bias-free Linear(cross_attention_dim, channel) per
\* schedule entry, randomly initialised (init).
To_KV(cross_attention_dim, init) ==
    LET channels == IF cross_attention_dim = 2048 THEN SD_XL_CHANNELS
                    ELSE SD_V12_CHANNELS
    IN  [i \in 1..Len(channels) |->
            [out |-> channels[i], in |-> cross_attention_dim, w |-> init]]

\* To_KV.load_state_dict: to_kvs[i].weight.data = state_dict[key], by position,
\* no shape comparison; to_kvs[i] raises IndexError past the end of the list.
load_state_dict(to_kvs, state_dict) ==
    IF Len(state_dict) > Len(to_kvs)
    THEN [error |-> "IndexError", to_kvs |-> to_kvs]
    ELSE [error |-> None,
          to_kvs |-> [i \in 1..Len(to_kvs) |->
                        IF i <= Len(state_dict) THEN state_dict[i] ELSE to_kvs[i]]]

\* IPAdapterModel.__init__: the projector choice and the bank.
IPAdapterModel(state_dict, plus, cross_attention_dim, init) ==
    LET loaded == load_state_dict(To_KV(cross_attention_dim, init),
                                  state_dict.ip_adapter)
    IN  [error |-> loaded.error,
         plus |-> plus,
         cross_attention_dim |-> cross_attention_dim,
         to_kvs |-> loaded.to_kvs]

----------------------------------------------------------------------------
(* CrossAttentionPatch construction and stacking *)

CrossAttentionPatch(kw) ==
    [weights |-> <<kw.weight>>,
     ipadapters |-> <<kw.ipadapter>>,
     conds |-> <<kw.cond>>,
     unconds |-> <<kw.uncond>>,
     dtype |-> kw.dtype,
     number |-> kw.number,
     masks |-> <<kw.mask>>]

\* set_new_condition without self.masks.append(mask)
set_new_condition_nomask(self, kw) ==
    [self EXCEPT !.weights = Append(@, kw.weight),
                 !.ipadapters = Append(@, kw.ipadapter),
                 !.conds = Append(@, kw.cond),
                 !.unconds = Append(@, kw.uncond),
                 !.dtype = kw.dtype]

set_new_condition(self, kw) ==
    [self EXCEPT !.weights = Append(@, kw.weight),
                 !.ipadapters = Append(@, kw.ipadapter),
                 !.conds = Append(@, kw.cond),
                 !.unconds = Append(@, kw.uncond),
                 !.masks = Append(@, kw.mask),
                 !.dtype = kw.dtype]

\* set_model_patch_replace on the attn2 table (an absent table is the empty one).
set_model_patch_replace(attn2, patch_kwargs, key) ==
    IF key \notin DOMAIN attn2
    THEN attn2 @@ (key :> CrossAttentionPatch(patch_kwargs))
    ELSE [attn2 EXCEPT ![key] = set_new_condition(@, patch_kwargs)]

----------------------------------------------------------------------------
(* Layer enumeration of IPAdapter.adapter *)

V12Key(section, id) == <<section, id>>

\* the sdxl patch name built like the sdv1-2 one, without transformer_index
XLKey_noindex(section, id, index) == <<section, id>>

XLKey(section, id, index) == <<section, id, index>>

\* the input ids with the last block left out
V12InputIds_short == <<1, 2, 4, 5, 7>>

V12InputIds == <<1, 2, 4, 5, 7, 8>>

\* the output ids as range(3, 11)
V12OutputIds_short == <<3, 4, 5, 6, 7, 8, 9, 10>>

V12OutputIds == <<3, 4, 5, 6, 7, 8, 9, 10, 11>>

XLInputIds == <<4, 5, 7, 8>>

XLOutputIds == <<0, 1, 2, 3, 4, 5>>

\* transformer_depth: range(2) for the ids in `shallow`, range(10) otherwise
TransformerDepth(id, shallow) == IF id \in shallow THEN 2 ELSE 10

\* One set_model_patch_replace call of the enumeration; st carries the table,
\* patch_kwargs and the calls made so far in this invocation.
Replace(st, key) ==
    [attn2 |-> set_model_patch_replace(st.attn2, st.kw, key),
     kw |-> st.kw,
     calls |-> Append(st.calls,
                 [key |-> key,
                  number |-> st.kw.number,
                  created |-> key \notin DOMAIN st.attn2,
                  before |-> IF key \in DOMAIN st.attn2
                             THEN Len(st.attn2[key].weights) ELSE 0])]

\* patch_kwargs["number"] += 1
Increment(st) == [st EXCEPT !.kw.number = @ + 1]

\* for key in keys: set_model_patch_replace(...); patch_kwargs["number"] += 1
\* after[c] is the state once c calls of this invocation have been made.
ForEach(st, keys) ==
    LET c0 == Len(st.calls)
        after[c \in c0..(c0 + Len(keys))] ==
            IF c = c0 THEN st ELSE Increment(Replace(after[c - 1], keys[c - c0]))
    IN  after[c0 + Len(keys)]

\* for id in ids: set_model_patch_replace(new_model, patch_kwargs, (section, id)); number += 1
V12Section(st, section, ids) ==
    ForEach(st, [i \in 1..Len(ids) |-> V12Key(section, ids[i])])

\* for id in ids: for index in block_indices: set_model_patch_replace(..., (section, id, index)); number += 1
XLSection(st, section, ids, shallow) ==
    LET afterId[j \in 0..Len(ids)] ==
            IF j = 0 THEN st
            ELSE ForEach(afterId[j - 1],
                         [i \in 1..TransformerDepth(ids[j], shallow) |->
                             XLKey(section, ids[j], i - 1)])
    IN  afterId[Len(ids)]

EnumerateV12(st) ==
    LET afterInput == V12Section(st, "input", V12InputIds)
        afterOutput == V12Section(afterInput, "output", V12OutputIds)
    IN  Replace(afterOutput, V12Key("middle", 0))

\* the sdxl enumeration with the middle loop before the output loop
EnumerateXL_middlefirst(st) ==
    LET afterInput == XLSection(st, "input", XLInputIds, {4, 5})
        afterMiddle == ForEach(afterInput, [i \in 1..10 |-> XLKey("middle", 0, i - 1)])
    IN  XLSection(afterMiddle, "output", XLOutputIds, {3, 4, 5})

EnumerateXL(st) ==
    LET afterInput == XLSection(st, "input", XLInputIds, {4, 5})
        afterOutput == XLSection(afterInput, "output", XLOutputIds, {3, 4, 5})
    IN  ForEach(afterOutput, [i \in 1..10 |-> XLKey("middle", 0, i - 1)])

Enumerate(sdxl, st) == IF sdxl THEN EnumerateXL(st) ELSE EnumerateV12(st)

----------------------------------------------------------------------------
(* Adapter checkpoint files *)

\* the entries of state_dict["ip_adapter"] with the given output widths
KVWeights(widths, cross_attention_dim) ==
    [i \in 1..Len(widths) |->
        [out |-> widths[i], in |-> cross_attention_dim, w |-> (i % 3) + 1]]

Schedule(cross_attention_dim) ==
    IF cross_attention_dim = 2048 THEN SD_XL_CHANNELS ELSE SD_V12_CHANNELS

OtherWidth(c) == IF c = 320 THEN 640 ELSE 320

\* A checkpoint: "full" stores the whole schedule, "half" its first half,
\* "width" has one altered output width, "extra" one more (key, value) pair.
Checkpoint(cross_attention_dim, plus, layout) ==
    LET s == Schedule(cross_attention_dim)
        widths == CASE layout = "full" -> s
                    [] layout = "half" -> SubSeq(s, 1, Len(s) \div 2)
                    [] layout = "width" -> [s EXCEPT ![3] = OtherWidth(@)]
                    [] layout = "extra" -> s \o <<320, 320>>
    IN  [plus |-> plus, layout |-> layout,
         ip_adapter |-> KVWeights(widths, cross_attention_dim)]

\* torch.load of the file model_name; a file is named by what it holds
TorchLoad(model_name) ==
    Checkpoint(model_name.cross_attention_dim, model_name.plus, model_name.layout)

----------------------------------------------------------------------------
(* IPAdapter.adapter *)

\* ip_state_dict["ip_adapter"]["1.to_k_ip.weight"].shape[1]: the input width
\* of the first stored projection
CrossAttentionDim(ip_state_dict) == ip_state_dict.ip_adapter[1].in

Adapter(model_name, weight, dtype, mask, emb, init) ==
    LET ip_state_dict == TorchLoad(model_name)
        plus == ip_state_dict.plus
        cross_attention_dim == CrossAttentionDim(ip_state_dict)
        sdxl == cross_attention_dim = 2048
        ipadapter == IPAdapterModel(ip_state_dict, plus, cross_attention_dim, init)
        id == Len(ipadapters) + 1
        patch_kwargs == [number |-> 0, weight |-> weight, ipadapter |-> id,
                         dtype |-> dtype, cond |-> emb.cond, uncond |-> emb.uncond,
                         mask |-> mask]
        done == Enumerate(sdxl, [attn2 |-> model, kw |-> patch_kwargs, calls |-> <<>>])
        call == [model_name |-> model_name, weight |-> weight, dtype |-> dtype,
                 mask |-> mask, emb |-> emb]
    IN  IF ipadapter.error # None
        THEN /\ installs' = Append(installs,
                    call @@ [error |-> ipadapter.error, sdxl |-> sdxl,
                             ipadapter |-> 0, calls |-> <<>>])
             /\ UNCHANGED <<model, ipadapters, result>>
        ELSE /\ ipadapters' = Append(ipadapters, [ipadapter EXCEPT !.error = None])
             /\ model' = done.attn2
             /\ installs' = Append(installs,
                    call @@ [error |-> None, sdxl |-> sdxl,
                             ipadapter |-> id, calls |-> done.calls])
             /\ UNCHANGED result

----------------------------------------------------------------------------
(* CrossAttentionPatch.__call__ *)

\* tensor.repeat(n, 1, 1): n copies of the rows of t, one copy after the other
Repeat(t, n) == [r \in 1..(Len(t) * n) |-> t[((r - 1) % Len(t)) + 1]]

\* torch.cat(tensors, dim=0)
RECURSIVE Cat(_)
Cat(tensors) ==
    IF tensors = <<>> THEN <<>> ELSE Head(tensors) \o Cat(Tail(tensors))

\* the (cond, uncond) tuple indexed the other way round
UncondCond_swapped(cond, uncond, batch_prompt, cond_or_uncond) ==
    Cat([j \in 1..Len(cond_or_uncond) |->
            <<Repeat(uncond, batch_prompt), Repeat(cond, batch_prompt)>>
                [cond_or_uncond[j] + 1]])

\* torch.cat([(cond.repeat(batch_prompt, 1, 1), uncond.repeat(batch_prompt, 1, 1))[i]
\*            for i in cond_or_uncond], dim=0)
UncondCond(cond, uncond, batch_prompt, cond_or_uncond) ==
    Cat([j \in 1..Len(cond_or_uncond) |->
            <<Repeat(cond, batch_prompt), Repeat(uncond, batch_prompt)>>
                [cond_or_uncond[j] + 1]])

\* what torch.autocast("cuda", dtype) leaves of a value: fp16 drops the low bit
Autocast(dtype, x) ==
    [r \in 1..Len(x) |-> IF dtype = "fp16" THEN 2 * (x[r] \div 2) ELSE x[r]]

\* a bias-free Linear applied to every row
Linear(layer, x) == [r \in 1..Len(x) |-> layer.w * x[r]]

\* attention(q, k, v, extra_options) with one key/value token per row: the
\* softmax over a single key is 1, the output row is the value row
Attention(v) == v

\* CrossAttentionPatch.__call__ on a query of b rows whose baseline value
\* rows are value_attn2. to_kvs[self.number*2+1] is position number*2+2 here.
PatchCall(self, heap, b, cond_or_uncond, value_attn2) ==
    LET batch_prompt == b \div Len(cond_or_uncond)
        n == Len(self.weights)
        uncond_cond == [i \in 1..n |->
            UncondCond(self.conds[i], self.unconds[i], batch_prompt, cond_or_uncond)]
        ip_out(i) ==
            LET ip_v == Autocast(self.dtype,
                    Linear(heap[self.ipadapters[i]].to_kvs[self.number * 2 + 2],
                           uncond_cond[i]))
                attended == Autocast(self.dtype, Attention(ip_v))
            IN  IF self.masks[i] = NoMask THEN attended
                ELSE [r \in 1..b |-> attended[r] * self.masks[i][1]]
        out[i \in 0..n] ==
            IF i = 0 THEN Autocast(self.dtype, Attention(value_attn2))
            ELSE LET prev == out[i - 1]
                     added == ip_out(i)
                     sum == [r \in 1..b |-> prev[r] + added[r] * self.weights[i]]
                 IN  Autocast(self.dtype, sum)
    IN  IF \E i \in 1..n : Len(uncond_cond[i]) # b
        THEN [status |-> "shape", uncond_cond |-> uncond_cond, out |-> <<>>]
        ELSE [status |-> "ok", uncond_cond |-> uncond_cond, out |-> out[n]]

Call(key, b, cond_or_uncond, value_attn2) ==
    /\ key \in DOMAIN model
    /\ result' = [key |-> key, b |-> b, cond_or_uncond |-> cond_or_uncond]
                    @@ PatchCall(model[key], ipadapters, b, cond_or_uncond, value_attn2)
    /\ UNCHANGED <<model, ipadapters, installs>>

----------------------------------------------------------------------------
(* Inputs *)

Dtypes == {"fp16", "fp32"}

Weights == {0, 1}

Masks == {NoMask, <<1>>}

\* (image_emb, uncond_image_emb) for one and for two reference images
OneImage == [cond |-> <<3>>, uncond |-> <<1>>]

TwoImages == [cond |-> <<3, 5>>, uncond |-> <<1, 7>>]

\* random initial weights of To_KV's Linear layers
InitWeights == {1, 2}

\* files in the models directory
ModelName(c, p, l) == [cross_attention_dim |-> c, plus |-> p, layout |-> l]

SpecModels == {ModelName(c, FALSE, "full") : c \in {768, 2048}}

LoadModels ==
    {ModelName(c, p, l) : c \in {768, 1024, 2048, 1280}, p \in BOOLEAN,
                           l \in {"full", "half", "width", "extra"}}

\* the last patch of either enumeration
CallKeys == {V12Key("middle", 0), XLKey("middle", 0, 9)}

\* the adapters installed before patch calls
CallInstalls ==
    {[model_name |-> ModelName(768, FALSE, "full"), emb |-> OneImage],
     [model_name |-> ModelName(768, FALSE, "full"), emb |-> TwoImages],
     [model_name |-> ModelName(2048, FALSE, "full"), emb |-> OneImage]}

Selectors == UNION {[1..n -> {0, 1}] : n \in 1..MaxSel}

----------------------------------------------------------------------------
(* Specifications *)

Init ==
    /\ model = <<>>
    /\ ipadapters = <<>>
    /\ installs = <<>>
    /\ result = NoResult

\* Installs of well-formed checkpoints of both variants, stacking on one table.
Install ==
    /\ Len(installs) < MaxInstalls
    /\ \E sd \in SpecModels, weight \in Weights, dtype \in Dtypes, mask \in Masks :
            Adapter(sd, weight, dtype, mask, OneImage, 1)

Next == Install

Spec == Init /\ [][Next]_vars

\* Loads of well-formed and malformed checkpoints.
Load ==
    /\ Len(installs) < MaxLoads
    /\ \E sd \in LoadModels, init \in InitWeights :
            Adapter(sd, 1, "fp16", NoMask, OneImage, init)

NextLoad == Load

SpecLoad == Init /\ [][NextLoad]_vars

\* Installs followed by patch invocations.
InstallForCall ==
    /\ Len(installs) < MaxStack
    /\ \E a \in CallInstalls :
            Adapter(a.model_name, 1, "fp16", NoMask, a.emb, 1)

\* The host's batch is the concatenation of one chunk of batch_prompt rows per
\* entry of cond_or_uncond.
Invoke ==
    \E key \in CallKeys, batch_prompt \in 1..MaxPrompts, cond_or_uncond \in Selectors :
        LET b == batch_prompt * Len(cond_or_uncond)
        IN  Call(key, b, cond_or_uncond, [r \in 1..b |-> 3])

NextCall == InstallForCall \/ Invoke

SpecCall == Init /\ [][NextCall]_vars

----------------------------------------------------------------------------
(* Properties *)

Succeeded(i) == installs[i].error = None

Bank(i) == ipadapters[installs[i].ipadapter].to_kvs

SectionRank(key) ==
    CASE key[1] = "input" -> 0 [] key[1] = "output" -> 1 [] key[1] = "middle" -> 2

\* a comes before b: section first, then block id, then transformer index
KeyBefore(a, b) ==
    \/ SectionRank(a) < SectionRank(b)
    \/ /\ SectionRank(a) = SectionRank(b)
       /\ \/ a[2] < b[2]
          \/ a[2] = b[2] /\ Len(a) = 3 /\ Len(b) = 3 /\ a[3] < b[3]

\* C1: one install enumerates as many layer coordinates as the bank holds
\* (key, value) pairs, half the variant's channel schedule (16 for V1_2, 70
\* for XL), so every index 2n and 2n+1 a patch reads is inside the bank.
C1_EnumerationMatchesBank ==
    \A i \in 1..Len(installs) :
        Succeeded(i) =>
            LET calls == installs[i].calls
                schedule == IF installs[i].sdxl THEN SD_XL_CHANNELS ELSE SD_V12_CHANNELS
            IN  /\ 2 * Len(calls) = Len(Bank(i))
                /\ 2 * Len(calls) = Len(schedule)
                /\ Len(calls) = IF installs[i].sdxl THEN 70 ELSE 16
                /\ \A j \in 1..Len(calls) :
                      LET n == model[calls[j].key].number
                      IN  n >= 0 /\ 2 * n + 1 < Len(Bank(i))

C1_Witness ==
    \E i, j \in 1..Len(installs) :
        /\ Succeeded(i) /\ Succeeded(j)
        /\ installs[i].sdxl /\ ~installs[j].sdxl

\* C2: within one install the coordinates get the numbers 0..N-1 in
\* enumeration order (input, then output, then middle; ids ascending, the
\* transformer index innermost); a created patch stores the number of its
\* visit, and every visit creates a patch at a free key or appends to the
\* patch that is there.
C2_SequentialNumbers ==
    \A i \in 1..Len(installs) :
        Succeeded(i) =>
            LET calls == installs[i].calls
                id == installs[i].ipadapter
            IN  /\ \A j \in 1..Len(calls) : calls[j].number = j - 1
                /\ \A j \in 1..(Len(calls) - 1) : KeyBefore(calls[j].key, calls[j + 1].key)
                /\ \A j \in 1..Len(calls) :
                      LET patch == model[calls[j].key]
                      IN  /\ calls[j].created <=> calls[j].before = 0
                          /\ calls[j].created => patch.number = calls[j].number
                          /\ Len(patch.ipadapters) > calls[j].before
                          /\ patch.ipadapters[calls[j].before + 1] = id

C2_Witness ==
    \E i, j \in 1..Len(installs) :
        /\ i < j /\ Succeeded(i) /\ Succeeded(j)
        /\ installs[i].sdxl /\ installs[j].sdxl
        /\ installs[i].calls[70].created /\ ~installs[j].calls[70].created

\* the installs that called set_model_patch_replace with key k, one entry per call
Targeting(k) ==
    LET visits(i) == SelectSeq(installs[i].calls, LAMBDA c : c.key = k)
        upTo[i \in 0..Len(installs)] ==
            IF i = 0 THEN <<>>
            ELSE upTo[i - 1] \o [j \in 1..Len(visits(i)) |-> i]
    IN  upTo[Len(installs)]

IsPrefix(s, t) == Len(s) <= Len(t) /\ SubSeq(t, 1, Len(s)) = s

C3_State ==
    \A k \in DOMAIN model :
        LET patch == model[k]
            by == Targeting(k)
        IN  /\ Len(patch.weights) = Len(by)
            /\ Len(patch.ipadapters) = Len(by)
            /\ Len(patch.conds) = Len(by)
            /\ Len(patch.unconds) = Len(by)
            /\ Len(patch.masks) = Len(by)
            /\ \A m \in 1..Len(by) :
                  /\ patch.ipadapters[m] = installs[by[m]].ipadapter
                  /\ patch.weights[m] = installs[by[m]].weight
                  /\ patch.conds[m] = installs[by[m]].emb.cond
                  /\ patch.unconds[m] = installs[by[m]].emb.uncond
                  /\ patch.masks[m] = installs[by[m]].mask

C3_Step ==
    \A k \in DOMAIN model :
        /\ k \in DOMAIN model'
        /\ IsPrefix(model[k].weights, model'[k].weights)
        /\ IsPrefix(model[k].ipadapters, model'[k].ipadapters)
        /\ IsPrefix(model[k].conds, model'[k].conds)
        /\ IsPrefix(model[k].unconds, model'[k].unconds)
        /\ IsPrefix(model[k].masks, model'[k].masks)

\* C3: at every key the per-bundle lists have one length, the number of
\* installs that targeted the key, their entries are those installs' values
\* in installation order, and an install keeps every earlier entry in place.
C3_AppendOnlyLists == [][C3_Step]_vars /\ []C3_State

C3_Witness ==
    \E k \in DOMAIN model :
        /\ Len(model[k].weights) = 2
        /\ model[k].weights[1] # model[k].weights[2]
        /\ model[k].masks[1] # model[k].masks[2]

\* C4: stacking a second bundle with weight 0 on a patch that holds one
\* bundle leaves the patch's output unchanged for every input.
C4_ZeroWeightStacking ==
    [][\A k \in CallKeys \cap DOMAIN model :
          (/\ Len(model[k].weights) = 1
           /\ Len(model'[k].weights) = 2
           /\ model'[k].weights[2] = 0)
          => \A batch_prompt \in 1..MaxPrompts, cond_or_uncond \in Selectors :
                LET b == batch_prompt * Len(cond_or_uncond)
                    value_attn2 == [r \in 1..b |-> 3]
                IN  PatchCall(model'[k], ipadapters', b, cond_or_uncond, value_attn2).out
                      = PatchCall(model[k], ipadapters, b, cond_or_uncond, value_attn2).out]_vars

\* what the patch applies for its i-th bundle
BundleAt(patch, i) ==
    [number |-> patch.number, weight |-> patch.weights[i], cond |-> patch.conds[i],
     uncond |-> patch.unconds[i], mask |-> patch.masks[i], dtype |-> patch.dtype]

\* C5: a later install leaves every registered bundle's number, weight,
\* cond and uncond tokens, mask and dtype as they were.
C5_BundleImmutable ==
    [][\A k \in DOMAIN model :
          \A i \in 1..Len(model[k].weights) :
              BundleAt(model'[k], i) = BundleAt(model[k], i)]_vars

\* the stored weights disagree with the channel schedule in width or number
Mismatch(state_dict) ==
    LET s == Schedule(CrossAttentionDim(state_dict))
        w == state_dict.ip_adapter
    IN  \/ Len(w) # Len(s)
        \/ \E p \in 1..Len(s) : w[p].out # s[p]

\* C6: loading a checkpoint whose stored weights disagree with the channel
\* schedule fails at load time and installs nothing.
C6_ShapeMismatchRaised ==
    \A i \in 1..Len(installs) :
        Mismatch(TorchLoad(installs[i].model_name)) =>
            installs[i].error # None /\ installs[i].calls = <<>>

\* C7: 768 and 1024 give V1_2, 2048 gives XL, and any other cross-attention
\* dimensionality is rejected at load time with nothing installed.
C7_UnsupportedVariantRejected ==
    \A i \in 1..Len(installs) :
        LET d == CrossAttentionDim(TorchLoad(installs[i].model_name))
        IN  /\ d \in {768, 1024} => ~installs[i].sdxl
            /\ d = 2048 => installs[i].sdxl
            /\ d \notin {768, 1024, 2048} =>
                  installs[i].error # None /\ installs[i].calls = <<>>

V12Order ==
    <<<<"input", 1>>, <<"input", 2>>, <<"input", 4>>, <<"input", 5>>,
      <<"input", 7>>, <<"input", 8>>, <<"output", 3>>, <<"output", 4>>,
      <<"output", 5>>, <<"output", 6>>, <<"output", 7>>, <<"output", 8>>,
      <<"output", 9>>, <<"output", 10>>, <<"output", 11>>, <<"middle", 0>>>>

Shallow768(i, stored) ==
    /\ CrossAttentionDim(TorchLoad(installs[i].model_name)) = 768
    /\ ~TorchLoad(installs[i].model_name).plus
    /\ Len(TorchLoad(installs[i].model_name).ip_adapter) \in stored

Called == result.status # "none"

\* C9 as stated: every bundle's token set has b rows, row r carrying the
\* cond tokens when its branch's selector entry is 0 and the uncond tokens
\* when it is 1.
C9_OneRowPerQueryRow ==
    Called =>
        \A i \in 1..Len(result.uncond_cond) :
            LET t == result.uncond_cond[i]
                patch == model[result.key]
                batch_prompt == result.b \div Len(result.cond_or_uncond)
            IN  /\ Len(t) = result.b
                /\ batch_prompt > 0
                /\ \A r \in 1..result.b :
                      LET branch == ((r - 1) \div batch_prompt) + 1
                      IN  /\ branch <= Len(result.cond_or_uncond)
                          /\ t[r] \in (IF result.cond_or_uncond[branch] = 0
                                       THEN {patch.conds[i][x] : x \in 1..Len(patch.conds[i])}
                                       ELSE {patch.unconds[i][x] : x \in 1..Len(patch.unconds[i])})

\* C9 amended: for a query batch of b rows, b a multiple of the selector's
\* length, and stored reference tokens of batch size n, the token set has
\* n * b rows (b rows exactly when n = 1). Branches follow the selector's
\* order, each a contiguous run of b // len(selector) copies of the n cond
\* rows (entry 0) or of the n uncond rows (entry 1).
C9_BranchRows ==
    Called =>
        \A i \in 1..Len(result.uncond_cond) :
            LET t == result.uncond_cond[i]
                cond == model[result.key].conds[i]
                uncond == model[result.key].unconds[i]
                n == Len(cond)
                sel == result.cond_or_uncond
                batch_prompt == result.b \div Len(sel)
            IN  /\ Len(uncond) = n
                /\ Len(t) = n * result.b
                /\ n = 1 => Len(t) = result.b
                /\ \A r \in 1..Len(t) :
                      LET branch == ((r - 1) \div (batch_prompt * n)) + 1
                          ref == ((r - 1) % n) + 1
                      IN  t[r] = IF sel[branch] = 0 THEN cond[ref] ELSE uncond[ref]

C9_Witness ==
    /\ Called
    /\ result.b = 4
    /\ result.cond_or_uncond = <<1, 0>>
    /\ Len(result.uncond_cond) = 2
    /\ result.uncond_cond[1] = <<1, 1, 3, 3>>
    /\ Len(result.uncond_cond[2]) = 8

\* C10: every set_model_patch_replace call of every install was made with
\* the number the patch at its key stores, the install's bundle is in that
\* patch, the two variants share no key, and the bank positions 2n and 2n+1
\* of that install's adapter exist.
C10_StoredNumberIsOwnNumber ==
    /\ \A i \in 1..Len(installs) :
          Succeeded(i) =>
              \A j \in 1..Len(installs[i].calls) :
                  LET c == installs[i].calls[j]
                  IN  /\ c.key \in DOMAIN model
                      /\ model[c.key].number = c.number
                      /\ \E m \in 1..Len(model[c.key].ipadapters) :
                            model[c.key].ipadapters[m] = installs[i].ipadapter
                      /\ 2 * c.number + 1 < Len(Bank(i))
    /\ \A i, j \in 1..Len(installs) :
          installs[i].sdxl # installs[j].sdxl =>
              \A a \in 1..Len(installs[i].calls), b \in 1..Len(installs[j].calls) :
                  installs[i].calls[a].key # installs[j].calls[b].key

C10_Witness ==
    \E i, j \in 1..Len(installs) :
        /\ i < j
        /\ installs[i].sdxl /\ installs[j].sdxl
        /\ model[<<"middle", 0, 9>>].ipadapters = <<installs[i].ipadapter, installs[j].ipadapter>>
        /\ model[<<"middle", 0, 9>>].number = 69

====
